---- MODULE Spec2Model ----
(***************************************************************************)
(* A model of ShelveDB.py: the shelve-backed store (ShelveDB) and its      *)
(* predicate builders (QueryConditions).                                   *)
(*                                                                         *)
(* Strings are sequences of one-character strings, so that str.isdigit,    *)
(* int(), str(), substring search, fnmatch and re.search are computed      *)
(* character by character.  The character "sup2" stands for U+00B2         *)
(* (SUPERSCRIPT TWO): str.isdigit() accepts it, int() does not.            *)
(*                                                                         *)
(* A Python value is a record [t, n, s, m]: t is the type tag, n the       *)
(* number of an int or bool, s the characters of a str (or the one-        *)
(* character elements of a list), m the (key, number) pairs of a nested    *)
(* dict.  A stored record (a dict) is a function from column names to      *)
(* values.  The store is a function from keys to records.                  *)
(***************************************************************************)
EXTENDS Integers, Sequences, FiniteSets, TLC

VARIABLES
    store,  \* the backing file: key -> record
    db,     \* self.db: "unbound", or the state of the shelf it is bound to
    last,   \* the last call: its arguments, its outcome, the store before it
    mode,   \* the backing store: "lww" (independent handles) or "serial" (one at a time)
    proc,   \* the calls in progress, step by step: caller -> its call
    scope,  \* whether the caller's own `with ShelveDB(...) as db:` block is open
    unref,  \* the open shelves self.db was bound to and no longer is
    alloc   \* the keys new() has returned: all of them, those before the last call of
            \* new, and whether a key has been removed since the store was created

vars == <<store, db, last, mode, proc, scope, unref, alloc>>

\* the variables of the step-by-step specifications
stepvars == <<mode, proc, scope, unref>>

(***************************************************************************)
(* Bounds of the model.                                                    *)
(***************************************************************************)
\* the store holds at most MaxKeys keys (guard of insert and new)
MaxKeys == 3
\* at most MaxProcs callers run at once
MaxProcs == 2
\* at most MaxUnref open shelves are left unreferenced
MaxUnref == 1
\* the allocation specification lets new allocate keys up to MaxAllocKey
MaxAllocKey == 4
\* new allocates keys up to MaxKeyNum (guard of new)
MaxKeyNum == 10
\* a query takes at most MaxConds conditions
MaxConds == 2

(***************************************************************************)
(* Python values.                                                          *)
(***************************************************************************)
NoneV == [t |-> "none", n |-> 0, s |-> <<>>, m |-> {}]
BoolV(b) == [t |-> "bool", n |-> IF b THEN 1 ELSE 0, s |-> <<>>, m |-> {}]
IntV(i) == [t |-> "int", n |-> i, s |-> <<>>, m |-> {}]
StrV(chars) == [t |-> "str", n |-> 0, s |-> chars, m |-> {}]
ListV(elems) == [t |-> "list", n |-> 0, s |-> elems, m |-> {}]
MapV(pairs) == [t |-> "map", n |-> 0, s |-> <<>>, m |-> pairs]

EmptyRec == [c \in {} |-> NoneV]
EmptyStore == [k \in {} |-> EmptyRec]

\* bool(v): None, False, 0, "", [] and {} are falsy
Truthy(v) ==
    CASE v.t = "none" -> FALSE
      [] v.t \in {"bool", "int"} -> v.n # 0
      [] v.t \in {"str", "list"} -> v.s # <<>>
      [] v.t = "map" -> v.m # {}

IsNum(v) == v.t \in {"bool", "int"}

\* the code point of a character
Ord(c) ==
    CASE c = "(" -> 40 [] c = "*" -> 42 [] c = "." -> 46
      [] c = "0" -> 48 [] c = "1" -> 49 [] c = "2" -> 50 [] c = "3" -> 51
      [] c = "4" -> 52 [] c = "5" -> 53 [] c = "6" -> 54 [] c = "7" -> 55
      [] c = "8" -> 56 [] c = "9" -> 57 [] c = "?" -> 63
      [] c = "a" -> 97 [] c = "b" -> 98 [] c = "c" -> 99
      [] c = "sup2" -> 178

\* x > y on two sequences of characters (lexicographic, by code point)
RECURSIVE SeqGt(_, _)
SeqGt(x, y) ==
    IF x = <<>> THEN FALSE
    ELSE IF y = <<>> THEN TRUE
    ELSE IF Head(x) # Head(y) THEN Ord(Head(x)) > Ord(Head(y))
    ELSE SeqGt(Tail(x), Tail(y))

\* y is a contiguous run of x
IsSubstring(y, x) ==
    \E i \in 0..(Len(x) - Len(y)) : SubSeq(x, i + 1, i + Len(y)) = y

\* x == y: a bool equals the int of the same number; otherwise same type and content
PyEq(x, y) ==
    IF IsNum(x) /\ IsNum(y) THEN x.n = y.n
    ELSE x = y

\* fnmatch.fnmatch(name, pat) on POSIX, for patterns of literals, * and ?
RECURSIVE GlobMatch(_, _)
GlobMatch(name, pat) ==
    IF pat = <<>> THEN name = <<>>
    ELSE IF Head(pat) = "*"
         THEN GlobMatch(name, Tail(pat))
              \/ (name # <<>> /\ GlobMatch(Tail(name), pat))
    ELSE /\ name # <<>>
         /\ (Head(pat) = "?" \/ Head(pat) = Head(name))
         /\ GlobMatch(Tail(name), Tail(pat))

\* the repetition operators of a regular expression
IsRepeat(c) == c \in {"*", "?"}

\* the length of the atom that starts pat with its repetition suffix: the atom, an
\* optional * or ?, and an optional ? after that (lazy)
TermLen(pat) ==
    IF Len(pat) >= 2 /\ IsRepeat(pat[2])
    THEN IF Len(pat) >= 3 /\ pat[3] = "?" THEN 3 ELSE 2
    ELSE 1

\* re.compile(pat) raises re.error, for patterns of literals, ., *, ? and ( :
\* an unterminated group, or a repetition with nothing to repeat
RECURSIVE RegexMalformed(_)
RegexMalformed(pat) ==
    IF pat = <<>> THEN FALSE
    ELSE IF Head(pat) = "(" \/ IsRepeat(Head(pat)) THEN TRUE
    ELSE RegexMalformed(SubSeq(pat, TermLen(pat) + 1, Len(pat)))

\* a well-formed pattern matches at the start of s
RECURSIVE RegexMatchHere(_, _)
RegexMatchHere(pat, s) ==
    IF pat = <<>> THEN TRUE
    ELSE LET rest == SubSeq(pat, TermLen(pat) + 1, Len(pat))
             most == IF TermLen(pat) = 1 THEN 1
                     ELSE IF pat[2] = "?" THEN 1 ELSE Len(s)
             least == IF TermLen(pat) = 1 THEN 1 ELSE 0
         IN \E j \in least..most :
               /\ j <= Len(s)
               /\ \A i \in 1..j : Head(pat) = "." \/ Head(pat) = s[i]
               /\ RegexMatchHere(rest, SubSeq(s, j + 1, Len(s)))

\* re.search(pat, s) finds a match: unanchored
RegexSearch(pat, s) ==
    \E i \in 1..(Len(s) + 1) : RegexMatchHere(pat, SubSeq(s, i, Len(s)))

Verdict(b) == IF b THEN "T" ELSE "F"

(***************************************************************************)
(* QueryConditions: the comparison function of each kind, applied to the   *)
(* column's value x and the comparison value y.  "T"/"F" is the truth of   *)
(* what it returns, "E" says that it raises.                               *)
(***************************************************************************)
\* lambda x, y: x > y
greater_than(x, y) ==
    IF IsNum(x) /\ IsNum(y) THEN Verdict(x.n > y.n)
    ELSE IF x.t = y.t /\ x.t \in {"str", "list"} THEN Verdict(SeqGt(x.s, y.s))
    ELSE "E"

\* lambda x, y: x == y
equals(x, y) == Verdict(PyEq(x, y))

\* lambda x, y: x != y
not_equals(x, y) == Verdict(~PyEq(x, y))

\* y in x
In(y, x) ==
    CASE x.t = "str" -> IF y.t = "str" THEN Verdict(IsSubstring(y.s, x.s)) ELSE "E"
      [] x.t = "list" -> Verdict(y.t = "str" /\ \E i \in 1..Len(x.s) : y.s = <<x.s[i]>>)
      [] x.t = "map" -> IF y.t \in {"list", "map"} THEN "E"
                        ELSE Verdict(y.t = "str" /\ \E p \in x.m : p[1] = y.s)
      [] OTHER -> "E"

\* lambda x, y: y in x
contains(x, y) == In(y, x)

\* lambda x, y: y not in x
not_contains(x, y) ==
    IF In(y, x) = "E" THEN "E" ELSE Verdict(In(y, x) = "F")

\* lambda x, y: fnmatch.fnmatch(x, y)
wildcard(x, y) ==
    IF x.t = "str" /\ y.t = "str" THEN Verdict(GlobMatch(x.s, y.s)) ELSE "E"

\* lambda x, y: re.search(y, x)
regex(x, y) ==
    IF y.t # "str" \/ x.t # "str" THEN "E"
    ELSE IF RegexMalformed(y.s) THEN "E"
    ELSE Verdict(RegexSearch(y.s, x.s))

Kinds == {"greater_than", "equals", "not_equals", "contains", "not_contains",
          "wildcard", "regex"}

comparison_fn(kind, x, y) ==
    CASE kind = "greater_than" -> greater_than(x, y)
      [] kind = "equals" -> equals(x, y)
      [] kind = "not_equals" -> not_equals(x, y)
      [] kind = "contains" -> contains(x, y)
      [] kind = "not_contains" -> not_contains(x, y)
      [] kind = "wildcard" -> wildcard(x, y)
      [] kind = "regex" -> regex(x, y)

\* dict.get(column): the value, or None when the column is absent
DictGet(rec, column) == IF column \in DOMAIN rec THEN rec[column] ELSE NoneV

\* a gate on the column's presence instead of its truthiness
generate_lambda_if_present(cond, rec) ==
    IF cond.column \notin DOMAIN rec THEN "F"
    ELSE comparison_fn(cond.kind, rec[cond.column], cond.value)

\* the predicate built by _generate_lambda(column, value, comparison_fn), on a record:
\*   item[1].get(column) and comparison_fn(item[1][column], value)
generate_lambda(cond, rec) ==
    IF ~Truthy(DictGet(rec, cond.column)) THEN "F"
    ELSE comparison_fn(cond.kind, rec[cond.column], cond.value)

Cond(kind, column, value) == [kind |-> kind, column |-> column, value |-> value]

(***************************************************************************)
(* Keys: str.isdigit, int() and str().                                     *)
(***************************************************************************)
AsciiDigits == <<"0", "1", "2", "3", "4", "5", "6", "7", "8", "9">>

IsAsciiDigit(c) == \E i \in 1..10 : AsciiDigits[i] = c

DigitValue(c) == (CHOOSE i \in 1..10 : AsciiDigits[i] = c) - 1

\* key.isdigit(): non-empty, every character has the Unicode property Digit
isdigit(key) ==
    /\ key # <<>>
    /\ \A i \in 1..Len(key) : IsAsciiDigit(key[i]) \/ key[i] = "sup2"

\* int(key) raises ValueError (on a key that passed isdigit)
IntRaises(key) == \E i \in 1..Len(key) : ~IsAsciiDigit(key[i])

\* int(key), base 10; leading zeros are accepted
RECURSIVE int(_)
int(key) ==
    IF key = <<>> THEN 0
    ELSE 10 * int(SubSeq(key, 1, Len(key) - 1)) + DigitValue(key[Len(key)])

\* str(n) for n >= 0: decimal, no leading zeros
RECURSIVE str(_)
str(n) ==
    IF n < 10 THEN <<AsciiDigits[n + 1]>>
    ELSE Append(str(n \div 10), AsciiDigits[(n % 10) + 1])

Max(S) == CHOOSE x \in S : \A y \in S : y <= x

(***************************************************************************)
(* The shelf.                                                              *)
(***************************************************************************)
\* a write that merges into the record already at the key
SetItemMerging(s, key, value) ==
    [k \in DOMAIN s \cup {key} |->
        IF k # key THEN s[k]
        ELSE IF key \in DOMAIN s
             THEN [c \in DOMAIN s[key] \cup DOMAIN value |->
                     IF c \in DOMAIN value THEN value[c] ELSE s[key][c]]
             ELSE value]

\* db[key] = value
SetItem(s, key, value) ==
    [k \in DOMAIN s \cup {key} |-> IF k = key THEN value ELSE s[k]]

\* a delete that removes every key spelling the same number
DelItemByNumber(s, key) ==
    [k \in {x \in DOMAIN s :
               /\ x # key
               /\ ~(/\ isdigit(x) /\ ~IntRaises(x) /\ isdigit(key) /\ ~IntRaises(key)
                    /\ int(x) = int(key))} |-> s[k]]

\* del db[key]
DelItem(s, key) == [k \in DOMAIN s \ {key} |-> s[k]]

\* a merge that descends into nested dicts
DictUpdateDeep(current_values, new_values) ==
    [c \in DOMAIN current_values \cup DOMAIN new_values |->
        IF c \notin DOMAIN new_values THEN current_values[c]
        ELSE IF c \in DOMAIN current_values /\ current_values[c].t = "map"
                /\ new_values[c].t = "map"
             THEN MapV(new_values[c].m \cup
                       {p \in current_values[c].m :
                           \A q \in new_values[c].m : q[1] # p[1]})
             ELSE new_values[c]]

\* current_values.update(new_values)
DictUpdate(current_values, new_values) ==
    [c \in DOMAIN current_values \cup DOMAIN new_values |->
        IF c \in DOMAIN new_values THEN new_values[c] ELSE current_values[c]]

NoSelect == [given |-> FALSE, cols |-> <<>>]
Select(cols) == [given |-> TRUE, cols |-> cols]

Call(op, key, val, conds, sel, ok, res, out) ==
    [op |-> op, key |-> key, val |-> val, conds |-> conds, sel |-> sel,
     ok |-> ok, res |-> res, out |-> out, pre |-> store]

\* no call made yet
NoCall ==
    [op |-> "init", key |-> <<>>, val |-> EmptyRec, conds |-> <<>>,
     sel |-> NoSelect, ok |-> TRUE, res |-> <<>>, out |-> EmptyStore,
     pre |-> EmptyStore]

\* a caller that is not in a call
Idle ==
    [pc |-> "idle", op |-> "init", key |-> <<>>, val |-> EmptyRec, conds |-> <<>>,
     sel |-> NoSelect, ok |-> TRUE, res |-> <<>>, out |-> EmptyStore,
     pre |-> EmptyStore, view |-> EmptyStore, seen |-> EmptyStore,
     wrote |-> FALSE, opened |-> 0, shelf |-> "none", err |-> "none",
     scoped |-> FALSE]

Procs == 1..MaxProcs

\* a fresh instance on a new file, nothing in progress
InitRest ==
    /\ db = "unbound"
    /\ last = NoCall
    /\ mode = "lww"
    /\ proc = [p \in Procs |-> Idle]
    /\ scope = FALSE
    /\ unref = 0
    /\ alloc = [returned |-> {}, before |-> {}, removed |-> FALSE]

Init ==
    /\ store = EmptyStore
    /\ InitRest

\* the keys new() parses: [int(key) for key in db.keys() if key.isdigit()]
DigitKeys(s) == {k \in DOMAIN s : isdigit(k)}

\* int() raises on one of them
NewRaises(s) == \E k \in DigitKeys(s) : IntRaises(k)

\* the maximum taken over the key strings instead of their numbers
new_key_strmax(s) ==
    IF DigitKeys(s) # {}
    THEN str(int(CHOOSE k \in DigitKeys(s) :
                     \A x \in DigitKeys(s) : ~SeqGt(x, k)) + 1)
    ELSE <<"1">>

\* the number of digit keys plus one
new_key_count(s) == str(Cardinality(DigitKeys(s)) + 1)

\* new_key = str(max(keys) + 1) if keys else "1"
new_key(s) ==
    IF DigitKeys(s) # {} THEN str(Max({int(k) : k \in DigitKeys(s)}) + 1)
    ELSE <<"1">>

\* ShelveDB.new(value); it opens its own shelf (open_db) and leaves self.db alone
new(value) ==
    IF NewRaises(store)
    THEN /\ last' = Call("new", <<>>, value, <<>>, NoSelect, FALSE, <<>>, EmptyStore)
         /\ UNCHANGED <<store, db>>
    ELSE /\ Cardinality(DOMAIN store) < MaxKeys
         /\ int(new_key(store)) <= MaxKeyNum
         /\ store' = SetItem(store, new_key(store), value)
         /\ last' = Call("new", <<>>, value, <<>>, NoSelect, TRUE, new_key(store),
                         EmptyStore)
         /\ UNCHANGED db

\* ShelveDB.insert(key, value)
insert(key, value) ==
    /\ key \in DOMAIN store \/ Cardinality(DOMAIN store) < MaxKeys
    /\ store' = SetItem(store, key, value)
    /\ db' = "closed"
    /\ last' = Call("insert", key, value, <<>>, NoSelect, TRUE, <<>>, EmptyStore)

\* an update that creates the key when it is absent
update_upsert(key, new_values) ==
    /\ store' = IF key \in DOMAIN store
                THEN SetItem(store, key, DictUpdate(store[key], new_values))
                ELSE SetItem(store, key, new_values)
    /\ db' = "closed"
    /\ last' = Call("update", key, new_values, <<>>, NoSelect, TRUE, <<>>, EmptyStore)

\* ShelveDB.update(key, new_values)
update(key, new_values) ==
    /\ store' = IF key \in DOMAIN store
                THEN SetItem(store, key, DictUpdate(store[key], new_values))
                ELSE store
    /\ db' = "closed"
    /\ last' = Call("update", key, new_values, <<>>, NoSelect, TRUE, <<>>, EmptyStore)

\* ShelveDB.delete(key)
delete(key) ==
    /\ store' = IF key \in DOMAIN store THEN DelItem(store, key) ELSE store
    /\ db' = "closed"
    /\ last' = Call("delete", key, EmptyRec, <<>>, NoSelect, TRUE, <<>>, EmptyStore)

\* a clear that removes only the keys new() counts
clear_digit_keys ==
    /\ store' = [k \in DOMAIN store \ DigitKeys(store) |-> store[k]]
    /\ db' = "closed"
    /\ last' = Call("clear", <<>>, EmptyRec, <<>>, NoSelect, TRUE, <<>>, EmptyStore)

\* ShelveDB.clear()
clear ==
    /\ store' = EmptyStore
    /\ db' = "closed"
    /\ last' = Call("clear", <<>>, EmptyRec, <<>>, NoSelect, TRUE, <<>>, EmptyStore)

\* filters that let through what any one condition accepts
RECURSIVE FilterAny(_, _)
FilterAny(conds, rec) ==
    IF conds = <<>> THEN "T"
    ELSE IF generate_lambda(Head(conds), rec) = "F" /\ Tail(conds) # <<>>
         THEN FilterAny(Tail(conds), rec)
    ELSE generate_lambda(Head(conds), rec)

\* filters that run every condition on every item
RECURSIVE FilterEager(_, _)
FilterEager(conds, rec) ==
    IF conds = <<>> THEN "T"
    ELSE IF generate_lambda(Head(conds), rec) = "E" \/ FilterEager(Tail(conds), rec) = "E"
         THEN "E"
    ELSE IF generate_lambda(Head(conds), rec) = "T" THEN FilterEager(Tail(conds), rec)
    ELSE "F"

\* filters of which only the last one written is applied
FilterLast(conds, rec) ==
    IF conds = <<>> THEN "T" ELSE generate_lambda(conds[Len(conds)], rec)

\* the filters stacked by `for condition in conditions: items = filter(condition, items)`,
\* on one item: each condition sees only the items the ones before it let through
RECURSIVE Filter(_, _)
Filter(conds, rec) ==
    IF conds = <<>> THEN "T"
    ELSE IF generate_lambda(Head(conds), rec) = "T" THEN Filter(Tail(conds), rec)
    ELSE generate_lambda(Head(conds), rec)

\* consuming the filtered items raises: some item makes a condition raise
QueryRaises(s, conds) == \E k \in DOMAIN s : Filter(conds, s[k]) = "E"

\* a projection that fills a missing column with None
ProjectFilling(value, select_columns) ==
    [c \in {select_columns[i] : i \in 1..Len(select_columns)} |-> DictGet(value, c)]

\* {column: value[column] for column in select_columns if column in value}
Project(value, select_columns) ==
    [c \in {select_columns[i] : i \in 1..Len(select_columns)} \cap DOMAIN value |->
        value[c]]

\* what query returns when nothing raises
QueryResult(s, conds, sel) ==
    [k \in {x \in DOMAIN s : Filter(conds, s[x]) = "T"} |->
        IF sel.given THEN Project(s[k], sel.cols) ELSE s[k]]

\* ShelveDB.query(conditions, select_columns)
query(conds, sel) ==
    /\ db' = "closed"
    /\ last' = IF QueryRaises(store, conds)
               THEN Call("query", <<>>, EmptyRec, conds, sel, FALSE, <<>>, EmptyStore)
               ELSE Call("query", <<>>, EmptyRec, conds, sel, TRUE, <<>>,
                         QueryResult(store, conds, sel))
    /\ UNCHANGED store

(***************************************************************************)
(* The calls step by step: the shelf is opened, the body runs on it, the   *)
(* shelf is closed.  A shelf has its own view of the file, taken when it   *)
(* is opened; closing a shelf that was written to puts its view in the     *)
(* file.                                                                   *)
(***************************************************************************)
\* the methods that run in `with self:`; new() runs in `with self.open_db() as db:`
WithSelf == {"insert", "update", "delete", "clear", "query"}

\* the shelves that are open on the file
OpenShelves ==
    unref + (IF db = "open" THEN 1 ELSE 0)
          + Cardinality({p \in Procs : proc[p].op = "new" /\ proc[p].shelf = "open"})

\* nobody is inside a call
NoCallRunning == \A p \in Procs : proc[p].pc \in {"idle", "done"}

\* __enter__: self.db = shelve.open(self.file_name); the shelf self.db was bound to
\* is closed by nobody
enter ==
    /\ unref' = IF db = "open" THEN unref + 1 ELSE unref
    /\ db' = "open"

\* __exit__: self.db.close()
exit == db' = "closed"

\* a method is called: nothing is opened yet
begin(p, op, key, val, conds, sel) ==
    /\ proc[p].pc \in {"idle", "done"}
    /\ proc' = [proc EXCEPT ![p] =
                  [Idle EXCEPT !.pc = "open", !.op = op, !.key = key, !.val = val,
                               !.conds = conds, !.sel = sel, !.pre = store,
                               !.scoped = scope]]
    /\ UNCHANGED <<store, db, last, mode, scope, unref, alloc>>

\* a store that lets every open through
MayOpenAlways == TRUE

\* a serial store makes an open wait until no shelf is open on the file
MayOpen == mode = "serial" => OpenShelves = 0

\* shelve.open succeeds
open_ok(p) ==
    /\ proc[p].pc = "open"
    /\ MayOpen
    /\ IF proc[p].op \in WithSelf THEN enter ELSE UNCHANGED <<db, unref>>
    /\ proc' = [proc EXCEPT ![p].pc = "body", ![p].view = store, ![p].seen = store,
                            ![p].opened = proc[p].opened + 1, ![p].shelf = "open"]
    /\ UNCHANGED <<store, last, mode, scope, alloc>>

\* shelve.open raises: the call ends there
open_fails(p) ==
    /\ proc[p].pc = "open"
    /\ proc' = [proc EXCEPT ![p].pc = "done", ![p].ok = FALSE, ![p].err = "open"]
    /\ UNCHANGED <<store, db, last, mode, scope, unref, alloc>>

\* a body of new that writes the record under a placeholder key before it parses the keys
new_body_reserving(view, val) ==
    IF NewRaises(view)
    THEN [ok |-> FALSE, view |-> SetItem(view, <<"0">>, val), wrote |-> TRUE,
          res |-> <<>>, out |-> EmptyStore]
    ELSE [ok |-> TRUE, view |-> SetItem(view, new_key(view), val), wrote |-> TRUE,
          res |-> new_key(view), out |-> EmptyStore]

\* the body of new: the keys are parsed first, the record is written after
new_body(view, val) ==
    IF NewRaises(view)
    THEN [ok |-> FALSE, view |-> view, wrote |-> FALSE, res |-> <<>>, out |-> EmptyStore]
    ELSE [ok |-> TRUE, view |-> SetItem(view, new_key(view), val), wrote |-> TRUE,
          res |-> new_key(view), out |-> EmptyStore]

\* the body of a method on the shelf it opened: what it leaves in the shelf's view,
\* whether it wrote, what it returns, whether it raises
Body(op, key, val, conds, sel, view) ==
    LET result(ok, v, wrote, res, out) ==
            [ok |-> ok, view |-> v, wrote |-> wrote, res |-> res, out |-> out]
    IN CASE op = "insert" -> result(TRUE, SetItem(view, key, val), TRUE, <<>>, EmptyStore)
         [] op = "update" ->
              IF key \in DOMAIN view
              THEN result(TRUE, SetItem(view, key, DictUpdate(view[key], val)), TRUE,
                          <<>>, EmptyStore)
              ELSE result(TRUE, view, FALSE, <<>>, EmptyStore)
         [] op = "delete" ->
              IF key \in DOMAIN view
              THEN result(TRUE, DelItem(view, key), TRUE, <<>>, EmptyStore)
              ELSE result(TRUE, view, FALSE, <<>>, EmptyStore)
         [] op = "clear" -> result(TRUE, EmptyStore, TRUE, <<>>, EmptyStore)
         [] op = "new" -> new_body(view, val)
         [] op = "query" ->
              IF QueryRaises(view, conds) THEN result(FALSE, view, FALSE, <<>>, EmptyStore)
              ELSE result(TRUE, view, FALSE, <<>>, QueryResult(view, conds, sel))

\* a body that raises leaves the call at once, past __exit__ and the finally clause
AfterBodyNoFinally(ok) == IF ok THEN "exit" ELSE "done"

\* where the body leaves the call: the with statement runs __exit__, and open_db its
\* finally clause, whether the body returned or raised
AfterBody(ok) == "exit"

\* the body runs
body(p) ==
    /\ proc[p].pc = "body"
    /\ LET c == proc[p]
           r == Body(c.op, c.key, c.val, c.conds, c.sel, c.view)
       IN proc' = [proc EXCEPT ![p].pc = AfterBody(r.ok), ![p].ok = r.ok,
                               ![p].err = IF r.ok THEN "none" ELSE "body",
                               ![p].view = r.view, ![p].wrote = r.wrote,
                               ![p].res = r.res, ![p].out = r.out]
    /\ UNCHANGED <<store, db, last, mode, scope, unref, alloc>>

\* the shelf is closed: self.db.close() in __exit__, db.close() in open_db
close(p) ==
    /\ proc[p].pc = "exit"
    /\ store' = IF proc[p].wrote THEN proc[p].view ELSE store
    /\ IF proc[p].op \in WithSelf THEN exit ELSE UNCHANGED db
    /\ proc' = [proc EXCEPT ![p].pc = "done", ![p].shelf = "closed"]
    /\ UNCHANGED <<last, mode, scope, unref, alloc>>

\* the caller opens `with ShelveDB(file) as db:`
enter_scope ==
    /\ ~scope
    /\ NoCallRunning
    /\ unref < MaxUnref
    /\ enter
    /\ scope' = TRUE
    /\ UNCHANGED <<store, last, mode, proc, alloc>>

\* the caller's with block ends
exit_scope ==
    /\ scope
    /\ NoCallRunning
    /\ exit
    /\ scope' = FALSE
    /\ UNCHANGED <<store, last, mode, proc, unref, alloc>>

\* the interpreter collects an unreferenced shelf, whose __del__ closes it; nothing
\* was written through it, so the file stays as it is
finalize ==
    /\ unref > 0
    /\ unref' = unref - 1
    /\ UNCHANGED <<store, db, last, mode, proc, scope, alloc>>

(***************************************************************************)
(* Inputs of the storage specification.                                    *)
(***************************************************************************)
Ka == <<"a">>
Kb == <<"b">>
Kc == <<"c">>

Alice == [name |-> StrV(<<"a", "b">>), age |-> IntV(30),
          info |-> MapV({<<Ka, 1>>, <<Kb, 2>>})]
Zero == [age |-> IntV(0)]
Partial == [age |-> IntV(31), city |-> StrV(Kc), info |-> MapV({<<Ka, 3>>})]

InsertKeys == {<<"1">>, <<"0", "1">>, <<"9">>, Ka, <<"sup2">>}
InsertRecs == {Alice, Zero}
Partials == {Partial}
OtherKeys == {<<"3">>}

\* a whole call taken as one step: nothing is in progress, and no history is kept
Whole == UNCHANGED <<stepvars, alloc>>

Next ==
    \/ \E k \in InsertKeys, v \in InsertRecs : insert(k, v) /\ Whole
    \/ \E v \in InsertRecs : new(v) /\ Whole
    \/ \E k \in InsertKeys, p \in Partials : update(k, p) /\ Whole
    \/ \E k \in InsertKeys \cup OtherKeys : delete(k) /\ Whole
    \/ clear /\ Whole
    \/ \E sel \in {NoSelect, Select(<<"name", "city">>)} :
          \E conds \in {<<>>, <<Cond("greater_than", "age", IntV(30))>>} :
             query(conds, sel) /\ Whole

Spec == Init /\ [][Next]_vars

(***************************************************************************)
(* Claims on the storage engine, checked under Spec.                       *)
(***************************************************************************)
\* the whole store, as query() with no conditions and no projection returns it
ReadAll(s) == QueryResult(s, <<>>, NoSelect)

\* C1: after insert(k, r), a query with no predicates and no projection returns
\* exactly r at k, whatever was at k before: the old record is replaced, not merged.
C1_InsertThenRead ==
    last.op = "insert" =>
        /\ ~QueryRaises(store, <<>>)
        /\ last.key \in DOMAIN ReadAll(store)
        /\ ReadAll(store)[last.key] = last.val

\* an insert over a record that had attributes the new record lacks
C1_Witness ==
    /\ last.op = "insert"
    /\ last.key \in DOMAIN last.pre
    /\ DOMAIN last.pre[last.key] \ DOMAIN last.val # {}

\* a key made only of the decimal digits 0-9
OnlyDecimalDigits(key) ==
    key # <<>> /\ \A i \in 1..Len(key) : IsAsciiDigit(key[i])

\* C2: in every store state new(record) returns str(max + 1) over the keys made
\* only of digits, and "1" when there is no such key.
C2_NewReturnsNextKey ==
    last.op = "new" =>
        /\ last.ok
        /\ LET nums == {int(k) : k \in {x \in DOMAIN last.pre : OnlyDecimalDigits(x)}}
           IN last.res = IF nums # {} THEN str(Max(nums) + 1) ELSE <<"1">>

\* C3: a new() that returns key k found k absent, leaves the store mapping k to the
\* record and every other key to the record it had; a new() that raises writes nothing.
C3_NewNeverOverwrites ==
    last.op = "new" =>
        IF last.ok
        THEN /\ last.res \notin DOMAIN last.pre
             /\ DOMAIN store = DOMAIN last.pre \cup {last.res}
             /\ store[last.res] = last.val
             /\ \A k \in DOMAIN last.pre : store[k] = last.pre[k]
        ELSE store = last.pre

\* a new() on a store holding a leading-zero key and a non-numeric key
C3_Witness ==
    /\ last.op = "new"
    /\ last.ok
    /\ <<"0", "1">> \in DOMAIN last.pre
    /\ Ka \in DOMAIN last.pre

\* C4: update(k, p) on a present key leaves at k the attributes of r and of p, p's
\* value for each attribute of p (a nested dict replaced whole), r's value for the
\* rest, and every other key as it was.
C4_UpdateMerges ==
    (last.op = "update" /\ last.key \in DOMAIN last.pre) =>
        LET r == last.pre[last.key]
            p == last.val
        IN /\ DOMAIN store = DOMAIN last.pre
           /\ DOMAIN store[last.key] = DOMAIN r \cup DOMAIN p
           /\ \A c \in DOMAIN p : store[last.key][c] = p[c]
           /\ \A c \in DOMAIN r \ DOMAIN p : store[last.key][c] = r[c]
           /\ \A k \in DOMAIN last.pre \ {last.key} : store[k] = last.pre[k]

\* an update whose partial replaces a nested dict holding a key the partial's lacks,
\* adds an attribute and leaves one alone
C4_Witness ==
    /\ last.op = "update"
    /\ last.key \in DOMAIN last.pre
    /\ \E c \in DOMAIN last.val \cap DOMAIN last.pre[last.key] :
          /\ last.val[c].t = "map"
          /\ last.pre[last.key][c].t = "map"
          /\ \E q \in last.pre[last.key][c].m : \A x \in last.val[c].m : x[1] # q[1]
    /\ DOMAIN last.val \ DOMAIN last.pre[last.key] # {}
    /\ DOMAIN last.pre[last.key] \ DOMAIN last.val # {}
    /\ DOMAIN last.pre # {last.key}

\* C5: update(k, p) and delete(k) on an absent key return normally and leave the
\* store as it was; update does not create k.
C5_MissingKeyNoOp ==
    (last.op \in {"update", "delete"} /\ last.key \notin DOMAIN last.pre) =>
        /\ last.ok
        /\ store = last.pre
        /\ last.key \notin DOMAIN store

\* an update of an absent key on a store that holds other keys
C5_Witness ==
    /\ last.op = "update"
    /\ last.key \notin DOMAIN last.pre
    /\ last.pre # EmptyStore

\* C6: delete(k) on a present key leaves k absent and every other key with the
\* record it had.
C6_DeleteRemovesOne ==
    (last.op = "delete" /\ last.key \in DOMAIN last.pre) =>
        /\ last.key \notin DOMAIN store
        /\ DOMAIN store = DOMAIN last.pre \ {last.key}
        /\ \A k \in DOMAIN store : store[k] = last.pre[k]

\* a delete of "1" from a store that also holds "01"
C6_Witness ==
    /\ last.op = "delete"
    /\ last.key = <<"1">>
    /\ {<<"1">>, <<"0", "1">>} \subseteq DOMAIN last.pre

\* C7: after clear(), a query with no predicates returns the empty mapping and
\* new(record) returns "1".
C7_ClearThenQuery ==
    /\ last.op = "clear" =>
          /\ ~QueryRaises(store, <<>>)
          /\ ReadAll(store) = EmptyStore
          /\ ~NewRaises(store)
          /\ new_key(store) = <<"1">>
    /\ (last.op \in {"query", "new"} /\ last.pre = EmptyStore) =>
          /\ last.ok
          /\ last.op = "query" => last.out = EmptyStore
          /\ last.op = "new" => last.res = <<"1">>

\* a clear of a store that held a key new() counts and a key it does not
C7_Witness ==
    /\ last.op = "clear"
    /\ \E k \in DOMAIN last.pre : isdigit(k)
    /\ \E k \in DOMAIN last.pre : ~isdigit(k)

(***************************************************************************)
(* The query specification: the store is a file left by earlier runs, and  *)
(* the call is the first one of this instance, a query (a query leaves the *)
(* store as it is, so later queries see what the first one sees).          *)
(***************************************************************************)
Falsy == [age |-> IntV(0), name |-> StrV(<<>>), tags |-> ListV(<<>>),
          info |-> MapV({}), n |-> NoneV, f |-> BoolV(FALSE)]
Truthful == [age |-> IntV(25), name |-> StrV(<<"a", "b">>), tags |-> ListV(Ka),
             info |-> MapV({<<Ka, 1>>}), f |-> BoolV(TRUE)]
John == [name |-> StrV(Ka), age |-> IntV(31), city |-> StrV(Kc)]

QueryKeys == {<<"1">>, <<"2">>}
QueryRecs == {Falsy, Truthful, John, Zero, EmptyRec}
QueryStores == UNION {[ks -> QueryRecs] : ks \in SUBSET QueryKeys}

QueryCols == {"age", "name", "tags", "info", "f", "n", "zip"}
QueryVals == {NoneV, IntV(0), IntV(1), IntV(30), StrV(<<>>), StrV(Ka),
              StrV(<<"(">>), StrV(<<"*">>), StrV(<<"a", "*">>), StrV(<<"?", "b">>),
              ListV(Ka), MapV({<<Ka, 1>>})}

\* every kind on every column with every value
AllConds == {Cond(kind, c, v) : kind \in Kinds, c \in QueryCols, v \in QueryVals}

\* the conditions that are combined in lists
ListConds == {Cond("greater_than", "age", IntV(30)),
              Cond("equals", "name", StrV(Ka)),
              Cond("not_equals", "city", StrV(Ka)),
              Cond("wildcard", "name", StrV(<<"a", "*">>)),
              Cond("regex", "name", StrV(<<"(">>))}

CondLists ==
    {<<c>> : c \in AllConds} \cup UNION {[1..n -> ListConds] : n \in 0..MaxConds}

Selects == {NoSelect, Select(<<"name", "city">>), Select(<<"city", "zip">>), Select(<<>>)}

InitQuery ==
    /\ store \in QueryStores
    /\ InitRest

NextQuery ==
    /\ db = "unbound"
    /\ \E conds \in CondLists, sel \in Selects : query(conds, sel)
    /\ Whole

SpecQuery == InitQuery /\ [][NextQuery]_vars

(***************************************************************************)
(* Claims on the query engine, checked under SpecQuery.                    *)
(***************************************************************************)
\* every condition of the list is true of the record
AllTrue(conds, rec) ==
    \A i \in 1..Len(conds) : generate_lambda(conds[i], rec) = "T"

\* no condition of the list raises on any record of the store
NoneRaises(conds, s) ==
    \A k \in DOMAIN s : \A i \in 1..Len(conds) : generate_lambda(conds[i], s[k]) # "E"

\* C8: with predicates that evaluate without error and no projection, query returns
\* exactly the pairs of the store for which every predicate is true, each record
\* unmodified under its key; with no predicates it returns the whole store.
C8_ConjunctiveFilter ==
    (last.op = "query" /\ ~last.sel.given /\ NoneRaises(last.conds, last.pre)) =>
        /\ last.ok
        /\ DOMAIN last.out = {k \in DOMAIN last.pre : AllTrue(last.conds, last.pre[k])}
        /\ \A k \in DOMAIN last.out : last.out[k] = last.pre[k]
        /\ last.conds = <<>> => last.out = last.pre
        /\ store = last.pre

\* a query of two predicates where one record passes both and another passes only
\* the first
C8_Witness ==
    /\ last.op = "query"
    /\ ~last.sel.given
    /\ Len(last.conds) = 2
    /\ NoneRaises(last.conds, last.pre)
    /\ DOMAIN last.out # {}
    /\ \E k \in DOMAIN last.pre \ DOMAIN last.out :
          generate_lambda(last.conds[1], last.pre[k]) = "T"

\* the columns a projection asks for
Requested(sel) == {sel.cols[i] : i \in 1..Len(sel.cols)}

\* C9: with select_columns, the result holds exactly the keys that survive the
\* predicates, each mapped to the requested columns its record has, with the
\* record's values; a requested column a record lacks is left out and raises nothing.
C9_Projection ==
    (last.op = "query" /\ last.sel.given) =>
        /\ NoneRaises(last.conds, last.pre) => last.ok
        /\ last.ok =>
              /\ DOMAIN last.out =
                     {k \in DOMAIN last.pre : AllTrue(last.conds, last.pre[k])}
              /\ \A k \in DOMAIN last.out :
                    /\ DOMAIN last.out[k] = Requested(last.sel) \cap DOMAIN last.pre[k]
                    /\ \A c \in DOMAIN last.out[k] : last.out[k][c] = last.pre[k][c]

\* a projection where one survivor has none of the requested columns and another
\* has some of them
C9_Witness ==
    /\ last.op = "query"
    /\ last.sel.given
    /\ last.ok
    /\ last.conds # <<>>
    /\ \E k \in DOMAIN last.out : last.out[k] = EmptyRec /\ last.pre[k] # EmptyRec
    /\ \E k \in DOMAIN last.out :
          /\ last.out[k] # EmptyRec
          /\ Requested(last.sel) \ DOMAIN last.pre[k] # {}

\* the column is absent from the record or holds a falsy value
Gated(cond, rec) ==
    \/ cond.column \notin DOMAIN rec
    \/ rec[cond.column] \in {NoneV, IntV(0), BoolV(FALSE), StrV(<<>>), ListV(<<>>), MapV({})}

\* C10: a predicate of any kind is false on a record whose column is absent or holds
\* None, 0, False or an empty string or collection, whatever the value compared with,
\* and the comparison is not evaluated: such a record is never returned, and a query
\* of one predicate over a store of such records raises nothing.
C10_TruthinessGate ==
    last.op = "query" =>
        /\ last.ok =>
              \A k \in DOMAIN last.out : \A i \in 1..Len(last.conds) :
                 ~Gated(last.conds[i], last.pre[k])
        /\ (/\ Len(last.conds) = 1
            /\ \A k \in DOMAIN last.pre : Gated(last.conds[1], last.pre[k])) =>
              last.ok /\ last.out = EmptyStore

\* equals('age', 0) on a store holding the record {age: 0}
C10_Witness ==
    /\ last.op = "query"
    /\ last.conds = <<Cond("equals", "age", IntV(0))>>
    /\ \E k \in DOMAIN last.pre : last.pre[k] = Zero
    /\ last.ok
    /\ last.out = EmptyStore

\* C13: adding or removing a key that is not made only of the digits 0-9 changes
\* neither whether new succeeds nor the key it returns.
C13_NonNumericIgnored ==
    (/\ last.op \in {"insert", "delete"}
     /\ ~OnlyDecimalDigits(last.key)
     /\ DOMAIN store # DOMAIN last.pre) =>
        /\ NewRaises(store) = NewRaises(last.pre)
        /\ ~NewRaises(store) => new_key(store) = new_key(last.pre)

\* some predicate of the last query would raise on some record of the store
SomeRaises ==
    \E k \in DOMAIN last.pre, i \in 1..Len(last.conds) :
        generate_lambda(last.conds[i], last.pre[k]) = "E"

\* some predicate raises on a record that every predicate before it accepted
SomeReachedRaises ==
    \E k \in DOMAIN last.pre, i \in 1..Len(last.conds) :
        /\ \A j \in 1..(i - 1) : generate_lambda(last.conds[j], last.pre[k]) = "T"
        /\ generate_lambda(last.conds[i], last.pre[k]) = "E"

\* C12 as stated: if some predicate of the list raises on some record of the store,
\* query raises, wherever the predicate sits in the list.
C12_RaisesWherever == (last.op = "query" /\ SomeRaises) => ~last.ok

\* C12, amended: query raises exactly when some predicate raises on a record that
\* every earlier predicate of the list accepted; otherwise it returns the whole
\* result, every record that all the predicates accept, and no partial one.
C12_NoPartialSuccess ==
    last.op = "query" =>
        /\ ~last.ok <=> SomeReachedRaises
        /\ last.ok =>
              DOMAIN last.out =
                 {k \in DOMAIN last.pre :
                     \A i \in 1..Len(last.conds) :
                         generate_lambda(last.conds[i], last.pre[k]) = "T"}

\* a query has returned although a later predicate would raise on a record that an
\* earlier predicate rejected
C12_Witness == last.op = "query" /\ last.ok /\ SomeRaises /\ ~SomeReachedRaises

\* the orders a list of n predicates can be given in
Perms(n) == {f \in [1..n -> 1..n] : \A i, j \in 1..n : f[i] = f[j] => i = j}

Permute(conds, f) == [i \in 1..Len(conds) |-> conds[f[i]]]

\* what a query does: it raises, or returns a mapping
Outcome(s, conds, sel) ==
    IF QueryRaises(s, conds) THEN [ok |-> FALSE, out |-> EmptyStore]
    ELSE [ok |-> TRUE, out |-> QueryResult(s, conds, sel)]

\* C19 as stated: the outcome of query, the mapping or the raise, is the same for
\* every permutation of the predicate list.
C19_OrderIndependent ==
    last.op = "query" =>
        \A f \in Perms(Len(last.conds)) :
            Outcome(last.pre, Permute(last.conds, f), last.sel) =
                [ok |-> last.ok, out |-> last.out]

\* C19, amended: when no predicate of the list raises on any record of the store, the
\* query returns the same mapping for every permutation of the list; and whatever the
\* predicates, two orders that both return, return the same mapping.
C19_OrderIndependentClean ==
    last.op = "query" =>
        \A f \in Perms(Len(last.conds)) :
            /\ ~SomeRaises =>
                  Outcome(last.pre, Permute(last.conds, f), last.sel) =
                      [ok |-> TRUE, out |-> last.out]
            /\ (last.ok /\ ~QueryRaises(last.pre, Permute(last.conds, f))) =>
                  QueryResult(last.pre, Permute(last.conds, f), last.sel) = last.out

\* a query with two different predicates, none of which raises, has kept one record
\* and rejected another
C19_Witness ==
    /\ last.op = "query"
    /\ Len(last.conds) = 2
    /\ last.conds[1] # last.conds[2]
    /\ ~SomeRaises
    /\ last.out # EmptyStore
    /\ DOMAIN last.out # DOMAIN last.pre

(***************************************************************************)
(* The allocation specification: the calls that change the store, each     *)
(* taken whole, with the history of the keys new has returned.             *)
(***************************************************************************)
AllocKeys == {<<"2">>, Ka}
AllocRecs == {Zero}

\* the history after a call of new: the key it returns joins the returned keys
Allocate ==
    alloc' = [alloc EXCEPT
                !.before = alloc.returned,
                !.returned = IF NewRaises(store) THEN alloc.returned
                             ELSE alloc.returned \cup {new_key(store)}]

\* the history after a call that may remove keys
Remove == alloc' = [alloc EXCEPT !.removed = alloc.removed \/ DOMAIN store' # DOMAIN store]

NextAlloc ==
    \/ \E k \in AllocKeys, v \in AllocRecs :
          insert(k, v) /\ UNCHANGED <<stepvars, alloc>>
    \/ \E v \in AllocRecs :
          /\ int(new_key(store)) <= MaxAllocKey
          /\ new(v)
          /\ Allocate
          /\ UNCHANGED stepvars
    \/ \E k \in AllocKeys \cup {<<"1">>}, v \in Partials :
          update(k, v) /\ UNCHANGED <<stepvars, alloc>>
    \/ \E k \in AllocKeys \cup {<<"1">>} : delete(k) /\ Remove /\ UNCHANGED stepvars
    \/ clear /\ Remove /\ UNCHANGED stepvars

SpecAlloc == Init /\ [][NextAlloc]_vars

\* the last new returned a key that no earlier new returned, greater than all of them
FreshAndGreater ==
    /\ last.res \notin alloc.before
    /\ \A k \in alloc.before : int(k) < int(last.res)

SessionKeys == {<<"1">>, <<"sup2">>}
SessionRecs == {Alice}
SessionConds == {<<>>, <<Cond("regex", "name", StrV(<<"(">>))>>}

\* the store stays within the bounds
Fits(op, key) ==
    CASE op = "insert" -> key \in DOMAIN store \/ Cardinality(DOMAIN store) < MaxKeys
      [] op = "new" -> IF NewRaises(store) THEN TRUE
                       ELSE /\ Cardinality(DOMAIN store) < MaxKeys
                            /\ int(new_key(store)) <= MaxKeyNum
      [] OTHER -> TRUE

NextSession ==
    \/ \E k \in SessionKeys, v \in SessionRecs :
          Fits("insert", k) /\ begin(1, "insert", k, v, <<>>, NoSelect)
    \/ \E v \in SessionRecs :
          Fits("new", <<>>) /\ begin(1, "new", <<>>, v, <<>>, NoSelect)
    \/ \E k \in SessionKeys, v \in Partials : begin(1, "update", k, v, <<>>, NoSelect)
    \/ \E k \in SessionKeys : begin(1, "delete", k, EmptyRec, <<>>, NoSelect)
    \/ begin(1, "clear", <<>>, EmptyRec, <<>>, NoSelect)
    \/ \E conds \in SessionConds : begin(1, "query", <<>>, EmptyRec, conds, NoSelect)
    \/ open_ok(1)
    \/ open_fails(1)
    \/ body(1)
    \/ close(1)
    \/ enter_scope
    \/ exit_scope
    \/ finalize

SpecSession == Init /\ [][NextSession]_vars

(***************************************************************************)
(* The concurrent specification: independent callers, each calling new     *)
(* once on the same file, over a store that serializes open shelves or     *)
(* one that does not.                                                      *)
(***************************************************************************)
ConcStores ==
    { EmptyStore,
      [k \in {<<"1">>, <<"2">>} |-> Zero],
      [k \in {<<"9">>, <<"1", "0">>} |-> Zero],
      [k \in {<<"0", "1">>, Ka} |-> Zero] }

\* the record of caller p
RecordOf(p) == [age |-> IntV(p)]

InitConc ==
    /\ store \in ConcStores
    /\ mode \in {"lww", "serial"}
    /\ db = "unbound"
    /\ last = NoCall
    /\ proc = [p \in Procs |-> Idle]
    /\ scope = FALSE
    /\ unref = 0
    /\ alloc = [returned |-> {}, before |-> {}, removed |-> FALSE]

NextConc ==
    \/ \E p \in Procs :
          proc[p].pc = "idle" /\ begin(p, "new", <<>>, RecordOf(p), <<>>, NoSelect)
    \/ \E p \in Procs : open_ok(p)
    \/ \E p \in Procs : body(p)
    \/ \E p \in Procs : close(p)

SpecConc == InitConc /\ [][NextConc]_vars

\* the calls that have returned or raised
Returned == {p \in Procs : proc[p].pc = "done"}

\* C11: a call made with no scope open that got past the open has opened exactly one
\* shelf, and that shelf is closed when the call ends, whether it returned or raised;
\* self.db is not left open (until a scope is opened); a call whose open failed has
\* opened none.
C11_PerCallRelease ==
    \A p \in Returned :
        ~proc[p].scoped =>
            /\ ~scope => db # "open"
            /\ IF proc[p].err = "open"
               THEN proc[p].opened = 0 /\ proc[p].shelf = "none"
               ELSE proc[p].opened = 1 /\ proc[p].shelf = "closed"

\* a query made with no scope open whose predicate raised has ended
C11_Witness ==
    \E p \in Returned :
        /\ ~proc[p].scoped
        /\ proc[p].op = "query"
        /\ proc[p].err = "body"
        /\ proc[p].opened = 1

\* C16: a call that ends with an error leaves the store as it was before the call;
\* when the open failed, no shelf was opened and nothing was read or written.
C16_UnchangedOnError ==
    \A p \in Returned :
        ~proc[p].ok =>
            /\ store = proc[p].pre
            /\ proc[p].err = "open" =>
                   /\ proc[p].opened = 0
                   /\ proc[p].shelf = "none"
                   /\ ~proc[p].wrote
                   /\ proc[p].seen = EmptyStore

\* new has raised on a key it could not parse, on a store that holds records
C16_Witness ==
    \E p \in Returned :
        /\ proc[p].op = "new"
        /\ proc[p].err = "body"
        /\ proc[p].pre # EmptyStore

\* C17: once the caller's with block has ended, every shelf the instance opened is
\* closed.
C17_ScopeReleasesAll == (~scope /\ NoCallRunning) => OpenShelves = 0

\* the record of caller p is in the store
InStore(p) == \E k \in DOMAIN store : store[k] = proc[p].val

\* the callers whose new has returned a key
Allocated == {p \in Returned : proc[p].op = "new" /\ proc[p].ok}

\* C14: over a store that does not serialize open shelves, two calls of new that have
\* read the same keys have both returned the same key, one more than the maximum they
\* read, and at most one of their two records is in the store.
C14_SameKeyTwice ==
    mode = "lww" =>
        \A p, q \in Allocated :
            (p # q /\ proc[p].seen = proc[q].seen) =>
                /\ proc[p].res = proc[q].res
                /\ int(proc[p].res) =
                       IF DigitKeys(proc[p].seen) = {} THEN 1
                       ELSE Max({int(k) : k \in DigitKeys(proc[p].seen)}) + 1
                /\ ~(InStore(p) /\ InStore(q))

\* two calls of new have returned the same key and one of their records is lost
C14_Witness ==
    /\ mode = "lww"
    /\ \E p, q \in Allocated :
          /\ p # q
          /\ proc[p].seen = proc[q].seen
          /\ proc[p].seen # EmptyStore
          /\ proc[p].res = proc[q].res
          /\ InStore(p)
          /\ ~InStore(q)

\* C15: over a store that serializes open shelves, the calls of new that have
\* returned have returned pairwise distinct keys, and the record of each is in the
\* store under the key it returned.
C15_SerialAllocation ==
    mode = "serial" =>
        \A p \in Allocated :
            /\ proc[p].res \in DOMAIN store
            /\ store[proc[p].res] = proc[p].val
            /\ \A q \in Allocated : p # q => proc[p].res # proc[q].res

\* every caller has returned from new over a serial store
C15_Witness ==
    /\ mode = "serial"
    /\ Allocated = Procs
    /\ store \notin ConcStores

====
